---- MODULE Spec2Model ----
(***************************************************************************)
(* Model of the sleppa_context crate: the immutable, type-indexed property *)
(* container (Context), the thread-local current slot (CURRENT_CONTEXT)    *)
(* and the scope guard (ContextGuard) that restores the previous context.  *)
(*                                                                         *)
(* Spec          the public interface on running threads; the containers   *)
(*               bound to threads carry properties of one type             *)
(* SpecTeardown  Spec plus the destruction of a thread's CURRENT_CONTEXT   *)
(* SpecProps     containers built from Context::new() by with_property,    *)
(*               with the list of insertions kept as a history             *)
(* SpecRelease   SpecTeardown with a log of the releases that found their  *)
(*               guard already released or the thread-local store gone     *)
(* SpecShutdown  SpecTeardown plus the destruction of DEFAULT_CONTEXT      *)
(* SpecBorrow    Spec plus callers that borrow the public CURRENT_CONTEXT  *)
(*               RefCell themselves                                        *)
(* SpecNesting   SpecTeardown with the container bound under each          *)
(*               unreleased guard kept as a history                        *)
(***************************************************************************)
EXTENDS Naturals, Sequences, FiniteSets

\* ------------------------------------------------------------------ bounds
\* Guards created in one behaviour (all threads together).
MaxGuards == 3
\* with_property calls behind one container in SpecProps.
MaxInserts == 3
\* Guards created in one behaviour of SpecRelease.
MaxReleaseGuards == 2
\* Guards created in one behaviour of SpecShutdown.
MaxShutdownGuards == 2
\* Guards created in one behaviour of SpecBorrow.
MaxBorrowGuards == 1
\* Guards created in one behaviour of SpecNesting.
MaxNestingGuards == 2

\* Threads, each with its own CURRENT_CONTEXT.
Threads == {"A", "B"}
\* TypeId::of::<T>() of the property types the callers define.
Types == {"T", "U"}
\* The property types of the containers that threads bind (Spec,
\* SpecTeardown); SpecProps builds containers over all of Types.
SlotTypes == {"T"}
\* Payloads; the same payload may be wrapped by two different types.
Values == {1, 2}
\* The callers' local variables that hold a Context. Context is Send + Sync,
\* so a variable may be read from any thread.
Locals == {"c", "d"}

VARIABLES
    slot,     \* slot[t]: the Context inside thread t's CURRENT_CONTEXT RefCell
    tls,      \* tls[t]: "alive", or "destroyed" once try_with fails on t
    guards,   \* the ContextGuard values, in order of creation
    locals,   \* locals[x]: Option<Context> held by the caller's variable x
    stack,    \* history: per thread, the guards bound and not yet released
              \* while every release was of the newest one, each with the
              \* container that was current right before its bind
    history,  \* history (SpecProps): per local variable, the (type, payload)
              \* pairs passed to with_property since Context::new()
    borrow,   \* borrow[t]: the borrow flag of thread t's CURRENT_CONTEXT
              \* RefCell: "none", "shared" or "exclusive"
    panic,    \* panic[t]: "none", or the error of the last panic raised on t
    dtls,     \* dtls[t]: thread t's DEFAULT_CONTEXT is "uninit" (its first
              \* use will initialise it), "alive", or "destroyed"
    seen,     \* history (SpecRelease): the kinds of release that happened
    bound     \* history (SpecNesting): bound[g] is the container that guard
              \* g's bind was called on, while g is unreleased

vars == <<slot, tls, guards, locals, stack, history, borrow, panic, dtls, seen,
          bound>>

\* ------------------------------------------------------------ Option<T>
None == <<>>
Some(x) == <<x>>
IsSome(o) == o # <<>>
Unwrap(o) == o[1]

\* ------------------------------------------------------------- Context
\* A stored property: Arc<dyn Any + Send + Sync> keeps the dynamic type of
\* the value next to its payload.
Any(ty, v) == [ty |-> ty, v |-> v]

\* Context::default(): an empty HashMap. A HashMap is a set of (key, value)
\* entries.
Default == {}

\* Context::new()
new == Default

\* Context::clone(): the derived Clone copies the map entry by entry (the
\* Arcs are shared and never written).
clone(c) == {[key |-> e.key, value |-> e.value] : e \in c}

\* HashMap::insert keyed by the payload instead of the TypeId.
insertByPayload(props, k, val) ==
    {e \in props : e.value.v # val.v} \cup {[key |-> k, value |-> val]}

\* HashMap::insert that keeps the entry it should replace.
insertKeepsOld(props, k, val) ==
    props \cup {[key |-> k, value |-> val]}

\* HashMap::insert: the entry of an equal key is replaced.
insert(props, k, val) ==
    {e \in props : e.key # k} \cup {[key |-> k, value |-> val]}

\* Context::with_property::<T>(&self, property)
with_property(self, ty, v) ==
    LET context == clone(self)
    IN  insert(context, ty, Any(ty, v))

\* <dyn Any>::downcast_ref::<T>()
downcast_ref(any, ty) == IF any.ty = ty THEN Some(any.v) ELSE None

\* Context::get that answers from any entry when the key is missing.
getAnyEntry(self, ty) ==
    LET found == {e \in self : e.key = ty}
    IN  IF found # {} THEN downcast_ref((CHOOSE e \in found : TRUE).value, ty)
        ELSE IF self = {} THEN None
        ELSE Some((CHOOSE e \in self : TRUE).value.v)

\* Context::get::<T>(&self): HashMap::get, then the checked downcast.
get(self, ty) ==
    LET found == {e \in self : e.key = ty}
    IN  IF found = {} THEN None
        ELSE downcast_ref((CHOOSE e \in found : TRUE).value, ty)

\* ---------------------------------------------------------- thread locals
\* DEFAULT_CONTEXT: Context::default()
DEFAULT_CONTEXT == Default

\* Context::current() reading one slot shared by all threads.
currentShared(t) == clone(slot[CHOOSE u \in Threads : TRUE])

\* Context::current(): get_current_context(|context| context.clone())
current(t) ==
    IF tls[t] = "alive" THEN clone(slot[t]) ELSE clone(DEFAULT_CONTEXT)

\* ------------------------------------------------------------------ state
Init ==
    /\ slot = [t \in Threads |-> Default]
    /\ tls = [t \in Threads |-> "alive"]
    /\ guards = <<>>
    /\ locals = [x \in Locals |-> None]
    /\ stack = [t \in Threads |-> <<>>]
    /\ history = [x \in Locals |-> <<>>]
    /\ borrow = [t \in Threads |-> "none"]
    /\ panic = [t \in Threads |-> "none"]
    /\ dtls = [t \in Threads |-> "uninit"]
    /\ seen = {}
    /\ bound = <<>>

\* let x = Context::new();
New(x) ==
    /\ locals' = [locals EXCEPT ![x] = Some(new)]
    /\ UNCHANGED <<slot, tls, guards, stack, borrow, panic>>

\* with_property that writes the property into the receiver as well.
WithPropertyInPlace(x, y, ty, v) ==
    /\ x # y
    /\ IsSome(locals[x])
    /\ locals' = [locals EXCEPT
           ![y] = Some(with_property(Unwrap(locals[x]), ty, v)),
           ![x] = Some(with_property(Unwrap(locals[x]), ty, v))]
    /\ UNCHANGED <<slot, tls, guards, stack, borrow, panic>>

\* let y = x.with_property(T(v));
WithProperty(x, y, ty, v) ==
    /\ x # y
    /\ IsSome(locals[x])
    /\ locals' = [locals EXCEPT
           ![y] = Some(with_property(Unwrap(locals[x]), ty, v))]
    /\ UNCHANGED <<slot, tls, guards, stack, borrow, panic>>

\* current() that moves the context out of the slot (mem::take) instead of
\* cloning it.
CurrentTakes(t, x) ==
    /\ locals' = [locals EXCEPT ![x] = Some(current(t))]
    /\ slot' = IF tls[t] = "alive" THEN [slot EXCEPT ![t] = Default] ELSE slot
    /\ UNCHANGED <<tls, guards, stack, borrow, panic>>

\* current() that answers with the default context when the cell is mutably
\* borrowed (try_borrow) instead of panicking.
CurrentAbsorbsBorrow(t, x) ==
    /\ locals' = [locals EXCEPT ![x] =
           IF tls[t] = "alive" /\ borrow[t] = "exclusive"
           THEN Some(clone(DEFAULT_CONTEXT))
           ELSE Some(current(t))]
    /\ UNCHANGED <<slot, tls, guards, stack, borrow, panic>>

\* let x = Context::current();   on thread t. RefCell::borrow panics while
\* the cell is mutably borrowed. When CURRENT_CONTEXT is gone the closure runs
\* on DEFAULT_CONTEXT through LocalKey::with, which panics while the
\* destructor of DEFAULT_CONTEXT runs and may panic after it has run: either
\* the panic, or a freshly initialised (empty) DEFAULT_CONTEXT is read.
Current(t, x) ==
    /\ IF tls[t] = "alive" /\ borrow[t] = "exclusive"
       THEN /\ panic' = [panic EXCEPT ![t] = "BorrowError"]
            /\ UNCHANGED locals
       ELSE IF tls[t] # "alive" /\ dtls[t] = "destroyed"
       THEN \/ /\ panic' = [panic EXCEPT ![t] = "AccessError"]
               /\ UNCHANGED locals
            \/ /\ locals' = [locals EXCEPT ![x] = Some(current(t))]
               /\ UNCHANGED panic
       ELSE /\ locals' = [locals EXCEPT ![x] = Some(current(t))]
            /\ UNCHANGED panic
    /\ UNCHANGED <<slot, tls, guards, stack, borrow>>

\* The guard Context::bind returns, with two history fields.
ContextGuard(t, previous_context) ==
    [thread |-> t, previous_context |-> previous_context,
     released |-> FALSE,   \* history: drop has run on this guard
     popped |-> FALSE]     \* history: its first drop found it the newest
                           \* guard of an unbroken nesting

\* bind that stores the new context in a slot common to all threads.
BindGlobal(t, x) ==
    /\ Len(guards) < MaxGuards
    /\ IsSome(locals[x])
    /\ slot' = [u \in Threads |-> Unwrap(locals[x])]
    /\ guards' = Append(guards, ContextGuard(t, Some(slot[t])))
    /\ stack' = [stack EXCEPT ![t] =
           Append(@, [guard |-> Len(guards) + 1, before |-> current(t)])]
    /\ locals' = [locals EXCEPT ![x] = None]
    /\ UNCHANGED <<tls, borrow, panic>>

\* bind that records the default context as the previous one.
BindRecordsDefault(t, x) ==
    /\ Len(guards) < MaxGuards
    /\ IsSome(locals[x])
    /\ slot' = IF tls[t] = "alive"
               THEN [slot EXCEPT ![t] = Unwrap(locals[x])]
               ELSE slot
    /\ guards' = Append(guards, ContextGuard(t,
           IF tls[t] = "alive" THEN Some(Default) ELSE None))
    /\ stack' = [stack EXCEPT ![t] =
           Append(@, [guard |-> Len(guards) + 1, before |-> current(t)])]
    /\ locals' = [locals EXCEPT ![x] = None]
    /\ UNCHANGED <<tls, borrow, panic>>

\* bind that hands the guard the new context instead of the replaced one.
BindKeepsSelf(t, x) ==
    /\ Len(guards) < MaxGuards
    /\ IsSome(locals[x])
    /\ slot' = IF tls[t] = "alive"
               THEN [slot EXCEPT ![t] = Unwrap(locals[x])]
               ELSE slot
    /\ guards' = Append(guards, ContextGuard(t,
           IF tls[t] = "alive" THEN Some(Unwrap(locals[x])) ELSE None))
    /\ stack' = [stack EXCEPT ![t] =
           Append(@, [guard |-> Len(guards) + 1, before |-> current(t)])]
    /\ locals' = [locals EXCEPT ![x] = None]
    /\ UNCHANGED <<tls, borrow, panic>>

\* bind that swaps the contexts without asking whether the store is there.
BindWithoutStore(t, x) ==
    /\ Len(guards) < MaxGuards
    /\ IsSome(locals[x])
    /\ slot' = [slot EXCEPT ![t] = Unwrap(locals[x])]
    /\ guards' = Append(guards, ContextGuard(t, Some(slot[t])))
    /\ stack' = [stack EXCEPT ![t] =
           Append(@, [guard |-> Len(guards) + 1, before |-> current(t)])]
    /\ locals' = [locals EXCEPT ![x] = None]
    /\ UNCHANGED <<tls, borrow, panic>>

\* bind that reads the current context into the guard and leaves it in the
\* slot.
BindLeavesSlot(t, x) ==
    /\ Len(guards) < MaxGuards
    /\ IsSome(locals[x])
    /\ guards' = Append(guards, ContextGuard(t,
           IF tls[t] = "alive" THEN Some(slot[t]) ELSE None))
    /\ stack' = [stack EXCEPT ![t] =
           Append(@, [guard |-> Len(guards) + 1, before |-> current(t)])]
    /\ locals' = [locals EXCEPT ![x] = None]
    /\ UNCHANGED <<slot, tls, borrow, panic>>

\* let guard = x.bind();   on thread t. self is moved into the call:
\* CURRENT_CONTEXT.try_with(|current| current.replace(self)).ok()
\* RefCell::replace borrows the cell mutably for the swap alone and panics
\* when the cell is borrowed already; no guard is returned then.
Bind(t, x) ==
    /\ Len(guards) < MaxGuards
    /\ IsSome(locals[x])
    /\ IF tls[t] = "alive" /\ borrow[t] # "none"
       THEN /\ panic' = [panic EXCEPT ![t] = "BorrowMutError"]
            /\ UNCHANGED <<slot, guards, stack>>
       ELSE /\ LET self == Unwrap(locals[x])
                   previous_context ==
                       IF tls[t] = "alive" THEN Some(slot[t]) ELSE None
               IN  /\ slot' = IF tls[t] = "alive"
                              THEN [slot EXCEPT ![t] = self]
                              ELSE slot
                   /\ guards' = Append(guards, ContextGuard(t, previous_context))
            /\ stack' = [stack EXCEPT ![t] =
                   Append(@, [guard |-> Len(guards) + 1, before |-> current(t)])]
            /\ UNCHANGED panic
    /\ locals' = [locals EXCEPT ![x] = None]
    /\ UNCHANGED <<tls, borrow>>

\* Guard g is the newest guard of the nesting st.
IsTop(st, g) == st # <<>> /\ st[Len(st)].guard = g

\* The history of thread t's nested guards after guard g ran its first drop:
\* the newest guard is popped, any other release ends the nesting.
Released(st, g) ==
    IF IsTop(st, g)
    THEN SubSeq(st, 1, Len(st) - 1)
    ELSE <<>>

\* drop that restores only when the guard is the newest one of its thread.
DropNewestOnly(g) ==
    /\ g \in 1..Len(guards)
    /\ LET t == guards[g].thread
           taken == guards[g].previous_context
           newest == \A h \in 1..Len(guards) :
                         (h > g /\ guards[h].thread = t) => guards[h].released
       IN  /\ slot' = IF IsSome(taken) /\ tls[t] = "alive" /\ newest
                      THEN [slot EXCEPT ![t] = Unwrap(taken)]
                      ELSE slot
           /\ guards' = [guards EXCEPT
                  ![g].previous_context = None,
                  ![g].released = TRUE,
                  ![g].popped = IF guards[g].released THEN @ ELSE IsTop(stack[t], g)]
           /\ stack' = [stack EXCEPT ![t] =
                  IF guards[g].released THEN @ ELSE Released(@, g)]
    /\ UNCHANGED <<tls, locals, borrow, panic>>

\* drop that resets the slot to the default context.
DropResets(g) ==
    /\ g \in 1..Len(guards)
    /\ LET t == guards[g].thread
           taken == guards[g].previous_context
       IN  /\ slot' = IF IsSome(taken) /\ tls[t] = "alive"
                      THEN [slot EXCEPT ![t] = Default]
                      ELSE slot
           /\ guards' = [guards EXCEPT
                  ![g].previous_context = None,
                  ![g].released = TRUE,
                  ![g].popped = IF guards[g].released THEN @ ELSE IsTop(stack[t], g)]
           /\ stack' = [stack EXCEPT ![t] =
                  IF guards[g].released THEN @ ELSE Released(@, g)]
    /\ UNCHANGED <<tls, locals, borrow, panic>>

\* drop that takes the previous context and never puts it back.
DropForgets(g) ==
    /\ g \in 1..Len(guards)
    /\ LET t == guards[g].thread
       IN  /\ guards' = [guards EXCEPT
                  ![g].previous_context = None,
                  ![g].released = TRUE,
                  ![g].popped = IF guards[g].released THEN @ ELSE IsTop(stack[t], g)]
           /\ stack' = [stack EXCEPT ![t] =
                  IF guards[g].released THEN @ ELSE Released(@, g)]
    /\ UNCHANGED <<slot, tls, locals, borrow, panic>>

\* drop that reads previous_context and leaves it in the guard.
DropLeavesPrevious(g) ==
    /\ g \in 1..Len(guards)
    /\ LET t == guards[g].thread
           kept == guards[g].previous_context
       IN  /\ slot' = IF IsSome(kept) /\ tls[t] = "alive"
                      THEN [slot EXCEPT ![t] = Unwrap(kept)]
                      ELSE slot
           /\ guards' = [guards EXCEPT
                  ![g].released = TRUE,
                  ![g].popped = IF guards[g].released THEN @ ELSE IsTop(stack[t], g)]
           /\ stack' = [stack EXCEPT ![t] =
                  IF guards[g].released THEN @ ELSE Released(@, g)]
    /\ UNCHANGED <<tls, locals, borrow, panic>>

\* drop run on a thread other than the guard's own (a guard that is Send):
\* the replace reaches the CURRENT_CONTEXT of the thread that runs it.
DropElsewhere(g) ==
    /\ g \in 1..Len(guards)
    /\ LET t == guards[g].thread
           taken == guards[g].previous_context
       IN  /\ \E u \in Threads \ {t} :
                  slot' = IF IsSome(taken) /\ tls[u] = "alive"
                          THEN [slot EXCEPT ![u] = Unwrap(taken)]
                          ELSE slot
           /\ guards' = [guards EXCEPT
                  ![g].previous_context = None,
                  ![g].released = TRUE,
                  ![g].popped = IF guards[g].released THEN @ ELSE IsTop(stack[t], g)]
           /\ stack' = [stack EXCEPT ![t] =
                  IF guards[g].released THEN @ ELSE Released(@, g)]
    /\ UNCHANGED <<tls, locals, borrow, panic>>

\* drop that reaches the slot with LocalKey::with, which panics when the
\* store is gone, instead of try_with.
DropNeedsStore(g) ==
    /\ g \in 1..Len(guards)
    /\ LET t == guards[g].thread
           taken == guards[g].previous_context
       IN  /\ slot' = IF IsSome(taken) /\ tls[t] = "alive"
                      THEN [slot EXCEPT ![t] = Unwrap(taken)]
                      ELSE slot
           /\ panic' = IF IsSome(taken) /\ tls[t] # "alive"
                       THEN [panic EXCEPT ![t] = "AccessError"]
                       ELSE panic
           /\ guards' = [guards EXCEPT
                  ![g].previous_context = None,
                  ![g].released = TRUE,
                  ![g].popped = IF guards[g].released THEN @ ELSE IsTop(stack[t], g)]
           /\ stack' = [stack EXCEPT ![t] =
                  IF guards[g].released THEN @ ELSE Released(@, g)]
    /\ UNCHANGED <<tls, locals, borrow>>

\* drop that assigns through a mutable borrow (*current.borrow_mut() = ..):
\* the replaced context is dropped, and the destructors of its properties
\* run, while the cell is still borrowed.
DropHoldsBorrow(g) ==
    /\ g \in 1..Len(guards)
    /\ LET t == guards[g].thread
           taken == guards[g].previous_context
           replaces == IsSome(taken) /\ tls[t] = "alive"
       IN  /\ slot' = IF replaces /\ borrow[t] = "none"
                      THEN [slot EXCEPT ![t] = Unwrap(taken)]
                      ELSE slot
           /\ panic' = IF replaces /\ borrow[t] # "none"
                       THEN [panic EXCEPT ![t] = "BorrowMutError"]
                       ELSE panic
           /\ borrow' = IF replaces /\ borrow[t] = "none"
                        THEN [borrow EXCEPT ![t] = "exclusive"]
                        ELSE borrow
           /\ guards' = [guards EXCEPT
                  ![g].previous_context = None,
                  ![g].released = TRUE,
                  ![g].popped = IF guards[g].released THEN @ ELSE IsTop(stack[t], g)]
           /\ stack' = [stack EXCEPT ![t] =
                  IF guards[g].released THEN @ ELSE Released(@, g)]
    /\ UNCHANGED <<tls, locals>>

\* <ContextGuard as Drop>::drop(&mut self), run on the guard's own thread
\* (the guard is !Send): previous_context.take(), then the replace, whose
\* mutable borrow ends before the replaced context is dropped by `let _ =`.
\* The replace panics when the cell is borrowed already; the AccessError of
\* try_with is discarded.
DropGuard(g) ==
    /\ g \in 1..Len(guards)
    /\ LET t == guards[g].thread
           taken == guards[g].previous_context
           replaces == IsSome(taken) /\ tls[t] = "alive"
       IN  /\ slot' = IF replaces /\ borrow[t] = "none"
                      THEN [slot EXCEPT ![t] = Unwrap(taken)]
                      ELSE slot
           /\ panic' = IF replaces /\ borrow[t] # "none"
                       THEN [panic EXCEPT ![t] = "BorrowMutError"]
                       ELSE panic
           /\ guards' = [guards EXCEPT
                  ![g].previous_context = None,
                  ![g].released = TRUE,
                  ![g].popped = IF guards[g].released THEN @ ELSE IsTop(stack[t], g)]
           /\ stack' = [stack EXCEPT ![t] =
                  IF guards[g].released THEN @ ELSE Released(@, g)]
    /\ UNCHANGED <<tls, locals, borrow>>

\* Thread t runs the destructor of CURRENT_CONTEXT: the slot's Context is
\* dropped and try_with fails from now on.
Teardown(t) ==
    /\ tls[t] = "alive"
    /\ tls' = [tls EXCEPT ![t] = "destroyed"]
    /\ slot' = [slot EXCEPT ![t] = Default]
    /\ UNCHANGED <<guards, locals, stack, borrow, panic>>

\* DEFAULT_CONTEXT, a thread-local like CURRENT_CONTEXT, is initialised by
\* its first use, which is in the fallback of get_current_context.
DefaultInit(t) ==
    IF tls[t] # "alive" /\ dtls[t] = "uninit"
    THEN [dtls EXCEPT ![t] = "alive"]
    ELSE dtls

\* Thread t runs the destructor of its initialised DEFAULT_CONTEXT.
DefaultTeardown(t) ==
    /\ tls[t] = "destroyed"
    /\ dtls[t] = "alive"
    /\ dtls' = [dtls EXCEPT ![t] = "destroyed"]
    /\ UNCHANGED <<slot, tls, guards, locals, stack, borrow, panic>>

\* A caller's closure under CURRENT_CONTEXT.with (the static is public)
\* starts a mutable borrow of the cell of thread t.
BorrowMut(t) ==
    /\ tls[t] = "alive"
    /\ borrow[t] = "none"
    /\ borrow' = [borrow EXCEPT ![t] = "exclusive"]
    /\ UNCHANGED <<slot, tls, guards, locals, stack, panic>>

\* A caller's closure under CURRENT_CONTEXT.with starts a shared borrow.
Borrow(t) ==
    /\ tls[t] = "alive"
    /\ borrow[t] = "none"
    /\ borrow' = [borrow EXCEPT ![t] = "shared"]
    /\ UNCHANGED <<slot, tls, guards, locals, stack, panic>>

\* The caller's Ref or RefMut goes out of scope.
EndBorrow(t) ==
    /\ borrow[t] # "none"
    /\ borrow' = [borrow EXCEPT ![t] = "none"]
    /\ UNCHANGED <<slot, tls, guards, locals, stack, panic>>

\* ------------------------------------------------------- specifications
Next ==
    \/ \E x \in Locals : New(x) /\ UNCHANGED <<history, dtls, seen, bound>>
    \/ \E x \in Locals, y \in Locals, ty \in SlotTypes, v \in Values :
           WithProperty(x, y, ty, v) /\ UNCHANGED <<history, dtls, seen, bound>>
    \/ \E t \in Threads, x \in Locals : Current(t, x) /\ UNCHANGED <<history, dtls, seen, bound>>
    \/ \E t \in Threads, x \in Locals : Bind(t, x) /\ UNCHANGED <<history, dtls, seen, bound>>
    \/ \E g \in 1..MaxGuards : DropGuard(g) /\ UNCHANGED <<history, dtls, seen, bound>>

Spec == Init /\ [][Next]_vars

NextTeardown ==
    \/ Next
    \/ \E t \in Threads : Teardown(t) /\ UNCHANGED <<history, dtls, seen, bound>>

SpecTeardown == Init /\ [][NextTeardown]_vars

NextProps ==
    \/ \E x \in Locals :
           /\ New(x)
           /\ history' = [history EXCEPT ![x] = <<>>]
           /\ UNCHANGED <<dtls, seen, bound>>
    \/ \E x \in Locals, y \in Locals, ty \in Types, v \in Values :
           /\ Len(history[x]) < MaxInserts
           /\ WithProperty(x, y, ty, v)
           /\ history' = [history EXCEPT ![y] = Append(history[x], <<ty, v>>)]
           /\ UNCHANGED <<dtls, seen, bound>>

SpecProps == Init /\ [][NextProps]_vars

\* What the drop of guard g is about to find:
\*   "again"       the guard was dropped before;
\*   "after_bind"  it was dropped before as the newest guard of its thread,
\*                 and a guard bound on that thread since is unreleased;
\*   "lost"        it holds a previous context and the store is gone;
\*   "again_gone"  it was dropped before and the store is gone;
\*   "unbound"     it was not dropped before and holds no previous context.
ReleaseKinds(g) ==
    LET t == guards[g].thread
    IN  {k \in {"again", "after_bind", "lost", "again_gone", "unbound"} :
            \/ /\ k = "unbound"
               /\ ~guards[g].released /\ ~IsSome(guards[g].previous_context)
            \/ k = "again" /\ guards[g].released
            \/ /\ k = "after_bind"
               /\ guards[g].released /\ guards[g].popped
               /\ \E h \in 1..Len(guards) :
                      h > g /\ guards[h].thread = t /\ ~guards[h].released
            \/ /\ k = "lost"
               /\ IsSome(guards[g].previous_context) /\ tls[t] # "alive"
            \/ k = "again_gone" /\ guards[g].released /\ tls[t] # "alive"}

NextRelease ==
    \/ \E x \in Locals : New(x) /\ UNCHANGED <<history, dtls, seen, bound>>
    \/ \E x \in Locals, y \in Locals, ty \in SlotTypes, v \in Values :
           WithProperty(x, y, ty, v) /\ UNCHANGED <<history, dtls, seen, bound>>
    \/ \E t \in Threads, x \in Locals :
           Current(t, x) /\ UNCHANGED <<history, dtls, seen, bound>>
    \/ \E t \in Threads, x \in Locals :
           /\ Len(guards) < MaxReleaseGuards
           /\ Bind(t, x)
           /\ UNCHANGED <<history, dtls, seen, bound>>
    \/ \E g \in 1..MaxReleaseGuards :
           /\ DropGuard(g)
           /\ seen' = seen \cup ReleaseKinds(g)
           /\ UNCHANGED <<history, dtls, bound>>
    \/ \E t \in Threads : Teardown(t) /\ UNCHANGED <<history, dtls, seen, bound>>

SpecRelease == Init /\ [][NextRelease]_vars

NextShutdown ==
    \/ \E x \in Locals : New(x) /\ UNCHANGED <<history, dtls, seen, bound>>
    \/ \E x \in Locals, y \in Locals, ty \in SlotTypes, v \in Values :
           WithProperty(x, y, ty, v) /\ UNCHANGED <<history, dtls, seen, bound>>
    \/ \E t \in Threads, x \in Locals :
           /\ Current(t, x)
           /\ dtls' = DefaultInit(t)
           /\ UNCHANGED <<history, seen, bound>>
    \/ \E t \in Threads, x \in Locals :
           /\ Len(guards) < MaxShutdownGuards
           /\ Bind(t, x)
           /\ UNCHANGED <<history, dtls, seen, bound>>
    \/ \E g \in 1..MaxShutdownGuards :
           DropGuard(g) /\ UNCHANGED <<history, dtls, seen, bound>>
    \/ \E t \in Threads : Teardown(t) /\ UNCHANGED <<history, dtls, seen, bound>>
    \/ \E t \in Threads : DefaultTeardown(t) /\ UNCHANGED <<history, seen, bound>>

SpecShutdown == Init /\ [][NextShutdown]_vars

NextBorrow ==
    \/ \E x \in Locals : New(x) /\ UNCHANGED <<history, dtls, seen, bound>>
    \/ \E x \in Locals, y \in Locals, ty \in SlotTypes, v \in Values :
           WithProperty(x, y, ty, v) /\ UNCHANGED <<history, dtls, seen, bound>>
    \/ \E t \in Threads, x \in Locals :
           Current(t, x) /\ UNCHANGED <<history, dtls, seen, bound>>
    \/ \E t \in Threads, x \in Locals :
           /\ Len(guards) < MaxBorrowGuards
           /\ Bind(t, x)
           /\ UNCHANGED <<history, dtls, seen, bound>>
    \/ \E g \in 1..MaxBorrowGuards :
           DropGuard(g) /\ UNCHANGED <<history, dtls, seen, bound>>
    \/ \E t \in Threads : BorrowMut(t) /\ UNCHANGED <<history, dtls, seen, bound>>
    \/ \E t \in Threads : Borrow(t) /\ UNCHANGED <<history, dtls, seen, bound>>
    \/ \E t \in Threads : EndBorrow(t) /\ UNCHANGED <<history, dtls, seen, bound>>

SpecBorrow == Init /\ [][NextBorrow]_vars

NextNesting ==
    \/ \E x \in Locals : New(x) /\ UNCHANGED <<history, dtls, seen, bound>>
    \/ \E x \in Locals, y \in Locals, ty \in SlotTypes, v \in Values :
           WithProperty(x, y, ty, v) /\ UNCHANGED <<history, dtls, seen, bound>>
    \/ \E t \in Threads, x \in Locals :
           Current(t, x) /\ UNCHANGED <<history, dtls, seen, bound>>
    \/ \E t \in Threads, x \in Locals :
           /\ Len(guards) < MaxNestingGuards
           /\ Bind(t, x)
           /\ bound' = Append(bound, Unwrap(locals[x]))
           /\ UNCHANGED <<history, dtls, seen>>
    \/ \E g \in 1..MaxNestingGuards :
           /\ DropGuard(g)
           /\ bound' = [bound EXCEPT ![g] = Default]
           /\ UNCHANGED <<history, dtls, seen>>
    \/ \E t \in Threads : Teardown(t) /\ UNCHANGED <<history, dtls, seen, bound>>

SpecNesting == Init /\ [][NextNesting]_vars

\* ---------------------------------------------------------------- claims
GuardIds == 1..Len(guards)

\* Guard g of thread t is unreleased and nothing was bound or released on t
\* since g's bind.
JustBound(t, g) ==
    /\ guards[g].thread = t
    /\ ~guards[g].released
    /\ IsTop(stack[t], g)
    /\ \A h \in GuardIds : h > g => guards[h].thread # t

Activation ==
    [][\A t \in Threads, x \in Locals :
          (tls[t] = "alive" /\ Bind(t, x))
              => /\ current(t)' = Unwrap(locals[x])
                 /\ guards'[Len(guards')].previous_context = Some(current(t))
                 /\ guards'[Len(guards')].thread = t]_vars

\* C2 witness: a guard of a thread whose store is available holds a
\* non-empty previous container, and another container is current.
ActivationWitness ==
    \E t \in Threads, g \in GuardIds :
        /\ guards[g].thread = t
        /\ tls[t] = "alive"
        /\ IsSome(guards[g].previous_context)
        /\ Unwrap(guards[g].previous_context) # Default
        /\ current(t) # Default
        /\ current(t) # Unwrap(guards[g].previous_context)
        /\ g = Len(guards)

BindOrRelease(a) ==
    \/ \E x \in Locals : Bind(a, x)
    \/ \E g \in GuardIds : guards[g].thread = a /\ DropGuard(g)

\* C5 -- Thread isolation: a step that changes what current() returns on
\* thread b is never a bind or a guard release of another thread a; it is a
\* bind or a release of b itself.
ThreadIsolation ==
    [][\A b \in Threads :
          current(b)' # current(b) =>
              /\ \A a \in Threads \ {b} : ~BindOrRelease(a)
              /\ BindOrRelease(b)]_vars

\* C5 witness: both threads hold an unreleased guard and see different,
\* non-empty containers.
ThreadIsolationWitness ==
    \E g \in GuardIds, h \in GuardIds :
        /\ guards[g].thread = "A" /\ guards[h].thread = "B"
        /\ ~guards[g].released /\ ~guards[h].released
        /\ current("A") # Default /\ current("B") # Default
        /\ current("A") # current("B")


\* The entries a container holds for type ty.
EntriesOf(c, ty) == {e \in c : e.key = ty}

\* C6 -- Immutability: computing x.with_property(v) leaves x, and with it
\* get<T> on x for every T, unchanged, and changes no container held by a
\* thread's slot or by a guard; the returned container exposes v.
Immutability ==
    [][\A x \in Locals, y \in Locals, ty \in Types, v \in Values :
          WithProperty(x, y, ty, v)
              => /\ locals'[x] = locals[x]
                 /\ \A u \in Types :
                        get(Unwrap(locals'[x]), u) = get(Unwrap(locals[x]), u)
                 /\ slot' = slot
                 /\ guards' = guards
                 /\ get(Unwrap(locals'[y]), ty) = Some(v)]_vars

\* C6 witness: variable c holds the container stored in a thread's slot, d
\* holds c.with_property(v); d exposes v and c (and the slot) does not.
ImmutabilityWitness ==
    \E t \in Threads, ty \in Types, v \in Values :
        /\ IsSome(locals["c"]) /\ IsSome(locals["d"])
        /\ slot[t] = Unwrap(locals["c"])
        /\ slot[t] # Default
        /\ Unwrap(locals["d"]) = with_property(Unwrap(locals["c"]), ty, v)
        /\ get(Unwrap(locals["d"]), ty) = Some(v)
        /\ get(Unwrap(locals["c"]), ty) # Some(v)
        /\ get(slot[t], ty) # Some(v)

\* C7 -- Override: a container whose last two with_property calls were for
\* the same type T, with v1 and then v2, answers get<T> with v2, never with
\* v1, and holds one entry for T; every container holds at most one entry
\* per type.
OverrideSemantics ==
    \A x \in Locals :
        IsSome(locals[x]) =>
            LET c == Unwrap(locals[x])
                h == history[x]
                n == Len(h)
            IN  /\ \A ty \in Types : Cardinality(EntriesOf(c, ty)) <= 1
                /\ (n >= 2 /\ h[n - 1][1] = h[n][1]) =>
                       /\ get(c, h[n][1]) = Some(h[n][2])
                       /\ h[n - 1][2] # h[n][2] =>
                              get(c, h[n][1]) # Some(h[n - 1][2])
                       /\ Cardinality(EntriesOf(c, h[n][1])) = 1

\* C7 witness: a container built by with_property(T(1)) and then
\* with_property(T(2)).
OverrideSemanticsWitness ==
    \E x \in Locals :
        /\ IsSome(locals[x])
        /\ history[x] = <<(<<"T", 1>>), (<<"T", 2>>)>>
        /\ get(Unwrap(locals[x]), "T") = Some(2)

\* C8 -- Type isolation: y = x.with_property(T(v)) answers get<U> as x does
\* for every type U other than T, also when U's payload equals v.
TypeIsolation ==
    [][\A x \in Locals, y \in Locals, ty \in Types, v \in Values :
          WithProperty(x, y, ty, v)
              => \A u \in Types \ {ty} :
                     /\ get(Unwrap(locals'[y]), u) = get(Unwrap(locals[x]), u)
                     /\ EntriesOf(Unwrap(locals'[y]), u)
                            = EntriesOf(Unwrap(locals[x]), u)]_vars

\* C8 witness: a container holding T(1) and U(1), equal payloads under two
\* types, each answered under its own type.
TypeIsolationWitness ==
    \E x \in Locals :
        /\ IsSome(locals[x])
        /\ history[x] = <<(<<"T", 1>>), (<<"U", 1>>)>>
        /\ get(Unwrap(locals[x]), "T") = Some(1)
        /\ get(Unwrap(locals[x]), "U") = Some(1)

\* The value last inserted for type ty by the with_property calls h, if any.
LastInserted(h, ty) ==
    LET at == {k \in 1..Len(h) : h[k][1] = ty}
    IN  IF at = {} THEN None
        ELSE Some(h[CHOOSE k \in at : \A m \in at : m <= k][2])

\* C9 -- Presence is exact: on a container built from Context::new() by
\* with_property calls, get<T> is the value last inserted for T when one
\* was inserted, and None when none was.
PresenceExact ==
    \A x \in Locals :
        IsSome(locals[x]) =>
            \A ty \in Types :
                get(Unwrap(locals[x]), ty) = LastInserted(history[x], ty)

\* C9 witness: a container for which a U was inserted and no T: get<U> is
\* the value, get<T> is None.
PresenceExactWitness ==
    \E x \in Locals :
        /\ IsSome(locals[x])
        /\ history[x] = <<(<<"U", 2>>)>>
        /\ get(Unwrap(locals[x]), "U") = Some(2)
        /\ get(Unwrap(locals[x]), "T") = None

\* No container was ever bound on thread t.
NeverBound(t) == \A g \in GuardIds : guards[g].thread # t

\* C10 -- Absent-vs-default: on a thread on which nothing was ever bound,
\* current() has no property and get<T> on it is None for every T, whatever
\* the other threads have bound.
AbsentVsDefault ==
    \A t \in Threads :
        NeverBound(t) =>
            /\ current(t) = {}
            /\ \A ty \in Types : get(current(t), ty) = None

\* C10 witness: nothing was ever bound on thread B while thread A's current
\* container holds a property.
AbsentVsDefaultWitness ==
    /\ NeverBound("B")
    /\ \E g \in GuardIds : guards[g].thread = "A" /\ ~guards[g].released
    /\ \E ty \in Types : get(current("A"), ty) # None
    /\ \A ty \in Types : get(current("B"), ty) = None

\* The guards created on thread t.
GuardsOf(t) == {g \in GuardIds : guards[g].thread = t}

\* Every release on thread t so far was of the newest unreleased guard of t.
ReverseOrderOnly(t) ==
    \A g \in GuardsOf(t) : guards[g].released => guards[g].popped

\* C11 as stated -- in every reachable state, a thread none of whose guards
\* is active (created and not yet released) reads the empty default
\* container as its current one.
NoActiveGuardMeansDefault ==
    \A t \in Threads :
        (\A g \in GuardsOf(t) : guards[g].released) => current(t) = Default

\* C11 -- Current slot without active guards: in every reachable state, a
\* thread none of whose guards is active, and whose guards were all released
\* in reverse order of creation, reads the empty default container as its
\* current one.
NoActiveGuardAfterNesting ==
    \A t \in Threads :
        ((\A g \in GuardsOf(t) : guards[g].released) /\ ReverseOrderOnly(t))
            => current(t) = Default

\* C11 witness: two guards were created on one thread and both released,
\* newest first, while another thread still has a non-empty container bound.
NoActiveGuardAfterNestingWitness ==
    \E t \in Threads, u \in Threads, g \in GuardIds, h \in GuardIds :
        /\ t # u /\ g < h
        /\ {g, h} \subseteq GuardsOf(t)
        /\ \A k \in GuardsOf(t) : guards[k].released /\ guards[k].popped
        /\ tls[t] = "alive"
        /\ current(t) = Default
        /\ current(u) # Default
        /\ \E k \in GuardsOf(u) : ~guards[k].released

\* C12 -- Idempotent release: the drop of a guard that was dropped before
\* changes no slot, no guard and no thread's current container, also when
\* containers were bound on its thread after its first drop.
IdempotentRelease ==
    [][\A g \in GuardIds :
          (guards[g].released /\ DropGuard(g))
              => /\ slot' = slot
                 /\ guards' = guards
                 /\ panic' = panic
                 /\ \A t \in Threads : current(t)' = current(t)]_vars

\* C12 witness: a guard released as the newest one of its thread was dropped
\* again while a later guard of that thread was unreleased; the container
\* bound after its first release is still current.
IdempotentReleaseWitness ==
    \E t \in Threads, g \in GuardIds, h \in GuardIds :
        /\ "after_bind" \in seen
        /\ g < h
        /\ {g, h} \subseteq GuardsOf(t)
        /\ guards[g].released /\ guards[g].popped
        /\ ~guards[h].released
        /\ tls[t] = "alive"
        /\ current(t) # Default

\* C13 as stated -- Teardown fallback of current(): when the thread-local
\* store of the current slot is gone, current() raises nothing and returns
\* an empty container, whatever the state of the thread's other
\* thread-locals (the default does not live in thread-local state).
CurrentFallbackNeverFails ==
    [][\A t \in Threads, x \in Locals :
          (tls[t] = "destroyed" /\ Current(t, x))
              => /\ panic' = panic
                 /\ locals'[x] = Some(Default)]_vars

\* C14 -- bind() during teardown: a bind on a thread whose thread-local
\* store is gone raises nothing, changes no slot and returns a guard without
\* a previous context; the drop of such a guard raises nothing and leaves
\* every thread's current container as it was.
BindAfterTeardown ==
    [][/\ \A t \in Threads, x \in Locals :
             (tls[t] = "destroyed" /\ Bind(t, x))
                 => /\ slot' = slot
                    /\ panic' = panic
                    /\ Len(guards') = Len(guards) + 1
                    /\ guards'[Len(guards')].previous_context = None
                    /\ guards'[Len(guards')].thread = t
       /\ \A g \in GuardIds :
             (~guards[g].released /\ guards[g].previous_context = None
                  /\ DropGuard(g))
                 => /\ slot' = slot
                    /\ panic' = panic
                    /\ \A u \in Threads : current(u)' = current(u)]_vars

\* C14 witness: the only guard dropped so far was bound on a thread whose
\* store is gone and held no previous context, while the other thread's
\* current container, bound under a guard, is not empty.
BindAfterTeardownWitness ==
    \E t \in Threads, u \in Threads, g \in GuardIds :
        /\ "unbound" \in seen
        /\ t # u
        /\ tls[t] = "destroyed"
        /\ guards[g].thread = t
        /\ guards[g].released
        /\ \A h \in GuardIds \ {g} : ~guards[h].released
        /\ current(u) # Default

\* C15 -- Re-entrant access is fatal: current() or bind() called on a thread
\* whose slot is mutably borrowed panics, returns nothing (no container, no
\* guard) and leaves every slot as it was; so does bind() called while the
\* slot is borrowed for reading.
ReentrantAccessPanics ==
    [][\A t \in Threads, x \in Locals :
          /\ (tls[t] = "alive" /\ borrow[t] = "exclusive" /\ Current(t, x))
                 => /\ panic'[t] = "BorrowError"
                    /\ locals'[x] = locals[x]
                    /\ slot' = slot
                    /\ guards' = guards
          /\ (tls[t] = "alive" /\ borrow[t] \in {"exclusive", "shared"}
                   /\ Bind(t, x))
                 => /\ panic'[t] = "BorrowMutError"
                    /\ slot' = slot
                    /\ guards' = guards]_vars

\* C15 witness: current() has panicked on one thread and bind() on the
\* other, whose slot is borrowed for reading and still holds the non-empty
\* container bound before.
ReentrantAccessPanicsWitness ==
    \E t \in Threads, u \in Threads :
        /\ t # u
        /\ panic[t] = "BorrowError"
        /\ borrow[t] = "exclusive"
        /\ panic[u] = "BorrowMutError"
        /\ borrow[u] = "shared"
        /\ current(u) # Default
        /\ Len(guards) = MaxBorrowGuards

SilentReleaseAfterTeardown ==
    [][\A g \in GuardIds :
          /\ (IsSome(guards[g].previous_context)
                   /\ tls[guards[g].thread] = "destroyed" /\ DropGuard(g))
                 => /\ slot' = slot
                    /\ panic' = panic
                    /\ guards'[g].previous_context = None
                    /\ \A u \in Threads : current(u)' = current(u)
          /\ (guards[g].released
                   /\ tls[guards[g].thread] = "destroyed" /\ DropGuard(g))
                 => /\ slot' = slot
                    /\ panic' = panic
                    /\ guards' = guards]_vars

\* C17 witness: the only guard dropped so far held a previous context when
\* its thread's store was gone, and was dropped a second time; the guard
\* bound before it on that thread is still unreleased.
SilentReleaseAfterTeardownWitness ==
    \E g \in GuardIds, h \in GuardIds :
        /\ {"lost", "again_gone"} \subseteq seen
        /\ h < g
        /\ guards[h].thread = guards[g].thread
        /\ tls[guards[g].thread] = "destroyed"
        /\ guards[g].released
        /\ guards[g].previous_context = None
        /\ ~guards[h].released
        /\ panic[guards[g].thread] = "none"

\* The unreleased guards of thread t.
Unreleased(t) == {g \in GuardsOf(t) : ~guards[g].released}

\* The container bound under the newest guard of the set U, or the default
\* context when U is empty.
NewestBound(U) ==
    IF U = {} THEN Default
    ELSE bound[CHOOSE g \in U : \A h \in U : h <= g]

\* The stack discipline on thread t: current() is the container bound under
\* the newest unreleased guard, and each unreleased guard holds the container
\* bound under the next older unreleased one (the default for the oldest).
StackOf(t) ==
    /\ current(t) = NewestBound(Unreleased(t))
    /\ \A g \in Unreleased(t) :
           guards[g].previous_context =
               Some(NewestBound({h \in Unreleased(t) : h < g}))

\* C18 as stated -- Stack discipline: in every reachable state, the stack
\* discipline holds on every thread whose guards were only ever released in
\* reverse order of creation.
StackDisciplineAlways ==
    \A t \in Threads : ReverseOrderOnly(t) => StackOf(t)

\* C18 -- Stack discipline: in every reachable state, the stack discipline
\* holds on every thread whose thread-local store is available and whose
\* guards were only ever released in reverse order of creation.
StackDiscipline ==
    \A t \in Threads :
        (tls[t] = "alive" /\ ReverseOrderOnly(t)) => StackOf(t)

\* C18 witness: a thread holds two nested unreleased guards bound on two
\* different non-empty containers; the newer container is current and the
\* newer guard holds the older container.
StackDisciplineWitness ==
    \E t \in Threads, g \in GuardIds, h \in GuardIds :
        /\ g < h
        /\ tls[t] = "alive"
        /\ Unreleased(t) = {g, h}
        /\ bound[g] # Default
        /\ bound[h] # Default
        /\ bound[g] # bound[h]
        /\ current(t) = bound[h]
        /\ guards[h].previous_context = Some(bound[g])

====
